---------------------------- MODULE Spec2Model ----------------------------
(***************************************************************************)
(* A model of MicroBitLog (source/MicroBitLog.cpp): the persistent,        *)
(* append-only CSV logger of the micro:bit, over a block-erasable flash.   *)
(*                                                                         *)
(* The medium is a byte array; a program operation clears bits only, an    *)
(* erase restores one page to 0xFF.  Every public method is run as a       *)
(* fiber: a stack of frames whose top frame is stepped from one NVM        *)
(* operation (or mutex wait) to the next.  Fibers are cooperative, so a    *)
(* caller keeps the processor (cur) until it suspends at an NVM write or   *)
(* erase, blocks on the mutex, or returns.  A reset loses RAM and keeps    *)
(* the medium.                                                             *)
(*                                                                         *)
(* Strings are sequences of byte values (ASCII codes).                     *)
(***************************************************************************)
EXTENDS Integers, Sequences, FiniteSets, TLC

(***************************************************************************)
(* Bounds of the model.  The geometry of the medium is scaled down: every  *)
(* size is derived from the 8-byte journal entry, so that pages hold whole *)
(* cache blocks and whole journal entries, as on the device (4096-byte     *)
(* pages, 256-byte blocks).                                                *)
(***************************************************************************)
EntriesPerBlock == 1
BlocksPerPage == 8
DataPages == 2
HeaderWords == 2
MaxWork == 12
CallCost == 3
FillCost == 1
MaxConcWork == 6
MaxConcOps == 2

(***************************************************************************)
(* Program constants.                                                      *)
(***************************************************************************)
MICROBIT_LOG_JOURNAL_ENTRY_SIZE == 8
CONFIG_MICROBIT_LOG_JOURNAL_PAGES == 1
CONFIG_MICROBIT_LOG_INVALID_CHAR_VALUE == 35
VersionLen == 18
FieldLen == 11
CONFIG_MICROBIT_LOG_CACHE_BLOCK_SIZE == MICROBIT_LOG_JOURNAL_ENTRY_SIZE * EntriesPerBlock
PageSize == BlocksPerPage * CONFIG_MICROBIT_LOG_CACHE_BLOCK_SIZE
HeaderSize == 4 * HeaderWords
MetaDataSize == VersionLen + FieldLen + FieldLen
FlashStart == 0

\* "UBIT_LOG_FS_V_001\n"
MICROBIT_LOG_VERSION ==
    <<85,66,73,84,95,76,79,71,95,70,83,95,86,95,48,48,49,10>>

\* The first bytes of MicroBitLog::header ("<html id = ..."), repeated.
HeaderBytes ==
    LET blob == <<60,104,116,109,108,32,105,100,32,61,32,34>>
    IN  [i \in 1..HeaderSize |-> blob[((i - 1) % Len(blob)) + 1]]

\* startAddress as clear() and isPresent() compute it.
StartAddress ==
    IF HeaderSize % PageSize = 0 THEN HeaderSize
    ELSE (1 + (HeaderSize \div PageSize)) * PageSize

\* flash.getFlashEnd(): header, metadata page, journal, data pages and the
\* reserved last page.
FlashEnd ==
    StartAddress + PageSize + CONFIG_MICROBIT_LOG_JOURNAL_PAGES * PageSize
        + DataPages * PageSize + PageSize

Addr == 0..(FlashEnd - 1)

Byte == 0..255

(***************************************************************************)
(* Bytes and the medium.                                                   *)
(***************************************************************************)
RECURSIVE AndBits(_, _, _)
AndBits(a, b, n) ==
    IF n = 0 THEN 0
    ELSE (IF a % 2 = 1 /\ b % 2 = 1 THEN 1 ELSE 0)
             + 2 * AndBits(a \div 2, b \div 2, n - 1)

\* What a flash cell holds after programming byte b over content a.
BitAnd(a, b) ==
    IF a = 255 THEN b
    ELSE IF b = 255 \/ a = b THEN a
    ELSE IF a = 0 \/ b = 0 THEN 0
    ELSE AndBits(a, b, 8)

\* flash.write / cache.write (write-through): program bytes at addr.
FlashProgram(f, addr, bytes) ==
    [x \in DOMAIN f |->
        IF x >= addr /\ x < addr + Len(bytes)
        THEN BitAnd(f[x], bytes[x - addr + 1]) ELSE f[x]]

\* flash.erase(page): the page holding the address returns to 0xFF.
FlashErase(f, page) ==
    LET base == (page \div PageSize) * PageSize
    IN  [x \in DOMAIN f |->
            IF x >= base /\ x < base + PageSize THEN 255 ELSE f[x]]

\* A read outside the medium yields erased bytes.
ReadByte(f, a) == IF a \in DOMAIN f THEN f[a] ELSE 255

ReadBytes(f, addr, n) == [i \in 1..n |-> ReadByte(f, addr + i - 1)]

Zeros(n) == [i \in 1..n |-> 0]

ContainsOnly(bytes, v) == \A i \in 1..Len(bytes) : bytes[i] = v

(***************************************************************************)
(* Codec.                                                                  *)
(***************************************************************************)
HexDigit(d) == IF d > 9 THEN 65 + d - 10 ELSE 48 + d

\* writeNum: eight uppercase hex digits, most significant first, then NUL.
WriteNum(n) ==
    [i \in 1..9 |->
        IF i = 9 THEN 0
        ELSE HexDigit((n \div (16 ^ (8 - i))) % 16)]

IsHex(c) == (c >= 48 /\ c <= 57) \/ (c >= 65 /\ c <= 70) \/ (c >= 97 /\ c <= 102)

HexValue(c) ==
    IF c <= 57 THEN c - 48 ELSE IF c <= 70 THEN c - 55 ELSE c - 87

IsSpace(c) == c \in {32, 9, 10, 11, 12, 13}

RECURSIVE HexDigits(_, _, _)
HexDigits(s, i, acc) ==
    IF i > Len(s) \/ ~IsHex(s[i]) THEN acc
    ELSE HexDigits(s, i + 1, acc * 16 + HexValue(s[i]))

RECURSIVE SkipSpace(_, _)
SkipSpace(s, i) ==
    IF i <= Len(s) /\ IsSpace(s[i]) THEN SkipSpace(s, i + 1) ELSE i

\* The C string held in a buffer: the bytes before the first NUL.
RECURSIVE CStringFrom(_, _)
CStringFrom(buf, i) ==
    IF i > Len(buf) \/ buf[i] = 0 THEN <<>>
    ELSE <<buf[i]>> \o CStringFrom(buf, i + 1)

\* strtoul(s, NULL, 16) on a C string: white space, a sign, "0x", digits.
\* The numbers on the medium are below 2^31, where TLC's integers and
\* unsigned 32-bit arithmetic agree; a "-" is only ever followed by no digit.
Strtoul16(buf) ==
    LET s == CStringFrom(buf, 1)
        i == SkipSpace(s, 1)
        j == IF i <= Len(s) /\ s[i] \in {43, 45} THEN i + 1 ELSE i
        k == IF j + 2 <= Len(s) /\ s[j] = 48 /\ s[j + 1] \in {120, 88}
                  /\ IsHex(s[j + 2])
             THEN j + 2 ELSE j
        v == HexDigits(s, k, 0)
    IN  v

\* JournalEntry(): the erased pattern, which a mount reads as length 0
\* (section 4.8, step 8 of the specification).
JournalEntryNew == [i \in 1..MICROBIT_LOG_JOURNAL_ENTRY_SIZE |-> 255]

\* JournalEntry::clear(): an invalidated entry.
JournalEntryCleared == Zeros(MICROBIT_LOG_JOURNAL_ENTRY_SIZE)

\* The entry logString commits: writeNum into je.length.
JournalEntryFor(n) == SubSeq(WriteNum(n), 1, MICROBIT_LOG_JOURNAL_ENTRY_SIZE)

\* The metadata record clear() builds: version, dataStart, logEnd.  writeNum
\* ends each number with a NUL, which lands on the field's '\n'.
MetaField(n) ==
    LET tmpl == <<48, 120, 48, 48, 48, 48, 48, 48, 48, 48, 10>>
        num == WriteNum(n)
    IN  [i \in 1..FieldLen |-> IF i >= 3 THEN num[i - 2] ELSE tmpl[i]]

MetaDataRecord(ds, le) == MICROBIT_LOG_VERSION \o MetaField(ds) \o MetaField(le)


(***************************************************************************)
(* Strings.                                                                *)
(***************************************************************************)
RECURSIVE Digits(_)
Digits(n) == IF n < 10 THEN <<48 + n>> ELSE Digits(n \div 10) \o <<48 + (n % 10)>>

\* ManagedString(int): the decimal rendering.
IntToString(n) == IF n < 0 THEN <<45>> \o Digits(-n) ELSE Digits(n)

\* C's integer division truncates toward zero.
TruncDiv(a, b) == IF a >= 0 THEN a \div b ELSE -((-a) \div b)

\* padString: "0" is put in front until the length is `digits`.  The callers
\* never pass a longer string (the source would not terminate on one).
RECURSIVE PadString(_, _)
PadString(s, digits) ==
    IF Len(s) >= digits THEN s ELSE PadString(<<48>> \o s, digits)

\* A cleanBuffer that returns a copy of its input when nothing is replaced.
CleanBufferCopy(s, removeSeparators) ==
    [i \in 1..Len(s) |->
        IF \/ s[i] = 9
           \/ removeSeparators /\ s[i] \in {44, 10}
           \/ \E j \in {i - 2, i - 1, i} :
                 /\ j >= 1 /\ j + 2 <= Len(s)
                 /\ s[j] = 45 /\ s[j + 1] = 45 /\ s[j + 2] = 62
        THEN CONFIG_MICROBIT_LOG_INVALID_CHAR_VALUE ELSE s[i]]

\* cleanBuffer: "-->" and '\t' (and ',' and '\n' when removeSeparators) are
\* replaced by the invalid-character value; the result is empty when nothing
\* was replaced.
CleanBuffer(s, removeSeparators) ==
    LET len == Len(s)
        arrow(j) == j >= 1 /\ j + 2 <= len
                      /\ s[j] = 45 /\ s[j + 1] = 45 /\ s[j + 2] = 62
        hit(i) == \/ arrow(i) \/ arrow(i - 1) \/ arrow(i - 2)
                  \/ s[i] = 9
                  \/ (removeSeparators /\ s[i] \in {44, 10})
    IN  IF \E i \in 1..len : hit(i)
        THEN [i \in 1..len |->
                 IF hit(i) THEN CONFIG_MICROBIT_LOG_INVALID_CHAR_VALUE ELSE s[i]]
        ELSE <<>>

\* What a caller's string becomes: the cleaned copy if one was made.
Cleaned(s, removeSeparators) ==
    LET c == CleanBuffer(s, removeSeparators)
    IN  IF Len(c) > 0 THEN c ELSE s

RECURSIVE JoinFields(_, _)
JoinFields(fields, i) ==
    IF i > Len(fields) THEN <<10>>
    ELSE fields[i] \o (IF i + 1 <= Len(fields) THEN <<44>> ELSE <<>>)
             \o JoinFields(fields, i + 1)

\* endRow: the header line k1,k2,...,kN\n.
HeaderLine(rowData) == JoinFields([i \in 1..Len(rowData) |-> rowData[i].key], 1)

\* A row that is not terminated: the "\n" after the last value is left out.
RowLineUnterminated(rowData) ==
    LET line == JoinFields([i \in 1..Len(rowData) |-> rowData[i].value], 1)
    IN  SubSeq(line, 1, Len(line) - 1)

\* endRow: the CSV row v1,v2,...,vN\n.
RowLine(rowData) == JoinFields([i \in 1..Len(rowData) |-> rowData[i].value], 1)

RowEmpty(rowData) == \A i \in 1..Len(rowData) : Len(rowData[i].value) = 0

(***************************************************************************)
(* Time stamps.                                                            *)
(***************************************************************************)
\* TimeStampFormat: None, Milliseconds, Seconds, Minutes, Hours, Days.
TimeStampNone == 0
TimeStampMilliseconds == 1
TimeStampSeconds == 1000
TimeStampMinutes == 60000
TimeStampHours == 3600000
TimeStampDays == 86400000

\* "Time (" + units + ")", with the unit names setTimeStamp picks.
TimeStampHeadingFor(format) ==
    LET ms == <<109,105,108,108,105,115,101,99,111,110,100,115>>
        sec == <<115,101,99,111,110,100,115>>
        min == <<109,105,110,117,116,101,115>>
        hrs == <<104,111,117,114,115>>
        units == IF format = TimeStampMilliseconds THEN ms
                 ELSE IF format = TimeStampSeconds THEN sec
                 ELSE IF format = TimeStampMinutes THEN min
                 ELSE hrs
    IN  <<84,105,109,101,32,40>> \o units \o <<41>>

\* endRow, lines 407-433: the text of the time stamp, from the two parts of
\* t = billions0 * 10^9 + units0 that lines 407 and 408 compute.
TimeStampText(format, billions0, units0) ==
    LET frac == format > 1
        fraction == IF frac THEN units0 % 100 ELSE 0
        units == IF frac THEN TruncDiv(units0, 100) ELSE units0
        billions == IF frac THEN TruncDiv(billions0, 100) ELSE billions0
        f == PadString(IntToString(fraction), 2)
        u == IF billions # 0 THEN PadString(IntToString(units), 9)
             ELSE IntToString(units)
        s == (IF billions # 0 THEN IntToString(billions) ELSE <<>>) \o u
    IN  IF frac THEN s \o <<46>> \o f ELSE s

\* endRow, line 406: the text of the time stamp for clock reading now
\* (milliseconds).  The readings are below 2^31, where the conversions to int
\* keep the value.
TimeStampString(format, now) ==
    TimeStampText(format, (now \div format) \div 1000000000,
                  (now \div format) % 1000000000)

(***************************************************************************)
(* The logger's RAM state (the fields of MicroBitLog) and its pure steps.  *)
(***************************************************************************)
INITIALIZED == "INITIALIZED"
ROW_STARTED == "ROW_STARTED"
FULL == "FULL"

\* The constructor.  dataEnd is left unset by the source; no method reads it
\* before init() has set it.
Constructed ==
    [ status |-> {}, journalPages |-> CONFIG_MICROBIT_LOG_JOURNAL_PAGES,
      journalHead |-> 0, startAddress |-> 0, journalStart |-> 0,
      dataStart |-> 0, dataEnd |-> 0, logEnd |-> 0,
      headingStart |-> 0, headingLength |-> 0, headingsChanged |-> FALSE,
      rowData |-> <<>>, timeStampFormat |-> TimeStampNone,
      timeStampHeading |-> <<>> ]

KeyIndex(rowData, key) ==
    IF \E i \in 1..Len(rowData) : rowData[i].key = key
    THEN CHOOSE i \in 1..Len(rowData) :
             rowData[i].key = key /\ \A j \in 1..(i - 1) : rowData[j].key # key
    ELSE 0

\* addHeading: a new column at the end, unless the key exists already.
AddHeading(L, key, value) ==
    IF KeyIndex(L.rowData, key) # 0 THEN L
    ELSE [L EXCEPT !.rowData = Append(@, [key |-> key, value |-> value]),
                   !.headingsChanged = TRUE]

\* A beginRow that opens the row and keeps the values.
ResetRowKeepsValues(L) == [L EXCEPT !.status = @ \cup {ROW_STARTED}]

\* beginRow, lines 325-330: every value is reset and the row is open.
ResetRow(L) ==
    [L EXCEPT !.rowData = [i \in 1..Len(@) |-> [key |-> @[i].key, value |-> <<>>]],
              !.status = @ \cup {ROW_STARTED}]

\* logData, lines 363-386, on an initialized logger with a row open.
StoreValue(L, key0, value0) ==
    LET key == Cleaned(key0, TRUE)
        value == Cleaned(value0, TRUE)
        i == KeyIndex(L.rowData, key)
    IN  IF i # 0 THEN [L EXCEPT !.rowData[i].value = value]
        ELSE AddHeading(L, key, value)

(***************************************************************************)
(* Mount: what init() reads from the medium.                               *)
(***************************************************************************)
\* isPresent, lines 705-723: the fields it loads and its verdict.
MetaDataFields(m, ds, le) ==
    [ dataStart |-> ds, logEnd |-> le,
      journalStart |-> StartAddress + PageSize,
      valid |-> /\ ds >= StartAddress + 2 * PageSize
                /\ ds < le
                /\ le < FlashEnd
                /\ SubSeq(m, 1, VersionLen - 1)
                     = SubSeq(MICROBIT_LOG_VERSION, 1, VersionLen - 1) ]

\* The record m as read from startAddress: version, dataStart, logEnd.
MetaDataOf(m) ==
    MetaDataFields(m,
                   Strtoul16(SubSeq(m, VersionLen + 1, VersionLen + FieldLen - 1)),
                   Strtoul16(SubSeq(m, VersionLen + FieldLen + 1, MetaDataSize - 1)))

ReadMetaData(f) == MetaDataOf(ReadBytes(f, StartAddress, MetaDataSize))

\* init, lines 94-115: the last entry of the journal that is not zeroed,
\* reading on until an unused entry follows a valid one.
RECURSIVE JournalScan(_, _, _, _)
JournalScan(f, a, dataStart, acc) ==
    IF a >= dataStart THEN acc
    ELSE LET j == ReadBytes(f, a, MICROBIT_LOG_JOURNAL_ENTRY_SIZE)
         IN  IF ContainsOnly(j, 255) /\ acc.valid THEN acc
             ELSE IF ~ContainsOnly(j, 0)
                  THEN JournalScan(f, a + MICROBIT_LOG_JOURNAL_ENTRY_SIZE, dataStart,
                           [journalHead |-> a,
                            dataEnd |-> dataStart + Strtoul16(j),
                            valid |-> TRUE])
                  ELSE JournalScan(f, a + MICROBIT_LOG_JOURNAL_ENTRY_SIZE, dataStart, acc)

\* init, lines 117-126: on from dataEnd to the first unused byte.
RECURSIVE DataScan(_, _, _)
DataScan(f, dataEnd, logEnd) ==
    IF dataEnd < logEnd /\ ReadByte(f, dataEnd) # 255
    THEN DataScan(f, dataEnd + 1, logEnd) ELSE dataEnd

RECURSIVE SkipZeros(_, _)
SkipZeros(f, a) == IF ReadByte(f, a) = 0 THEN SkipZeros(f, a + 1) ELSE a

RECURSIVE ScanToUnused(_, _)
ScanToUnused(f, a) == IF ReadByte(f, a) # 255 THEN ScanToUnused(f, a + 1) ELSE a

\* init, lines 162-181: the keys in a headings buffer.  Each ',' and '\n' ends
\* a key and is counted; key h is the C string at the offset after key h-1.
\* A key that is not ended inside the buffer is read to its end.
RECURSIVE KeysFrom(_, _, _)
KeysFrom(buf, i, n) ==
    IF n = 0 THEN <<>>
    ELSE LET key == CStringFrom(buf, i)
         IN  <<[key |-> key, value |-> <<>>]>> \o KeysFrom(buf, i + Len(key) + 1, n - 1)

ParseHeadings(region) ==
    LET buf == [i \in 1..Len(region) |-> IF region[i] \in {44, 10} THEN 0 ELSE region[i]]
        count == Cardinality({i \in 1..Len(region) : region[i] \in {44, 10}})
    IN  KeysFrom(buf, 1, count)

\* init, lines 128-184: the headings, from start, the first byte that is not
\* 0x00, to end, the first unused byte.
MountHeadings(L, f, start, end) ==
    IF end - start > 0
    THEN [L EXCEPT !.headingLength = end - start,
                   !.headingStart = start,
                   !.rowData = ParseHeadings(ReadBytes(f, start, end - start))]
    ELSE [L EXCEPT !.headingLength = end - start]

\* init, lines 86-126: the geometry md of the metadata and the result js of
\* the scan of the journal.
MountData(L, f, md, js) ==
    [L EXCEPT !.startAddress = StartAddress,
              !.dataStart = md.dataStart,
              !.logEnd = md.logEnd,
              !.journalStart = md.journalStart,
              !.journalPages = ((md.dataStart - StartAddress) \div PageSize) - 1,
              !.journalHead = js.journalHead,
              !.dataEnd = DataScan(f, js.dataEnd, md.logEnd),
              !.status = @ \cup {INITIALIZED}]

MountFrom(L, f, md, start) ==
    MountHeadings(MountData(L, f, md,
                      JournalScan(f, md.journalStart, md.dataStart,
                          [journalHead |-> md.journalStart, dataEnd |-> md.dataStart,
                           valid |-> FALSE])),
                  f, start, ScanToUnused(f, start))

\* init, lines 86-188, on a medium isPresent accepts: the logger after mount.
Mount(L, f) ==
    MountFrom(L, f, ReadMetaData(f), SkipZeros(f, StartAddress + MetaDataSize))

\* isPresent, lines 705-720, on a logger that is not initialized: the fields
\* it overwrites whatever its verdict.
LoadFields(L, md) ==
    [L EXCEPT !.startAddress = StartAddress, !.dataStart = md.dataStart,
              !.logEnd = md.logEnd, !.journalStart = md.journalStart]

LoadMetaData(L, f) == LoadFields(L, ReadMetaData(f))

IsPresent(L, f) == INITIALIZED \in L.status \/ ReadMetaData(f).valid

\* clear, lines 204-223: the geometry and the reset of the cached columns.
ClearState(L) ==
    LET journalStart == StartAddress + PageSize
        dataStart == journalStart + CONFIG_MICROBIT_LOG_JOURNAL_PAGES * PageSize
    IN  [L EXCEPT !.startAddress = StartAddress,
                  !.journalPages = CONFIG_MICROBIT_LOG_JOURNAL_PAGES,
                  !.journalStart = journalStart,
                  !.journalHead = journalStart,
                  !.dataStart = dataStart,
                  !.dataEnd = dataStart,
                  !.logEnd = FlashEnd - PageSize - 4,
                  !.status = {},
                  !.headingsChanged = FALSE,
                  !.headingStart = 0,
                  !.headingLength = 0,
                  !.rowData = <<>>]


(***************************************************************************)
(* The state.                                                              *)
(*   flash   the medium, a byte per address                                *)
(*   log     the MicroBitLog object (RAM)                                  *)
(*   mutex   0 when free, else the caller that passed mutex.wait()         *)
(*   stack   per caller, the frames of the methods it is inside, top first *)
(*   cur     the caller on the processor, 0 when none is                   *)
(*   ret     per caller, the public method last called and what it         *)
(*           returned                                                      *)
(*   hist    history kept for the properties                               *)
(*   left    what is left of the bounds on the calls                       *)
(*   stamp   the time stamp that SpecStamp renders; unused elsewhere        *)
(*   cleaning  the string that SpecClean cleans; unused elsewhere           *)
(***************************************************************************)
VARIABLES flash, log, mutex, stack, cur, ret, hist, left, stamp, cleaning

vars == <<flash, log, mutex, stack, cur, ret, hist, left, stamp, cleaning>>

Callers == {1, 2}

\* The inputs of the public methods.
FillBlock == [i \in 1..CONFIG_MICROBIT_LOG_CACHE_BLOCK_SIZE |-> 97]
FillPage == [i \in 1..(PageSize - 4) |-> 97]
\* ">-->", a tab, a line feed and "--": what cleanBuffer is to replace, and the
\* two parts of "-->" at the ends.
Dirty == <<62, 45, 45, 62, 9, 10, 45, 45>>
UnusedByte == <<255>>
Strings == {<<97>>, FillBlock, FillPage, Dirty, UnusedByte}
\* A key whose header line is longer than the space between the metadata and
\* the journal.
LongKey == [i \in 1..(PageSize - MetaDataSize + 2) |-> 97]
Keys == {<<107>>, <<106>>, LongKey}
Values == {<<118>>, <<45, 45, 62>>}
Formats == {TimeStampNone, TimeStampSeconds}
Clock == {12340}

Frame(pc) ==
    [ pc |-> pc, data |-> <<>>, oldDataEnd |-> 0, oldJournalHead |-> 0,
      p |-> 0, fullErase |-> FALSE, key |-> <<>>, value |-> <<>>,
      format |-> 0, h |-> <<>>, now |-> 0, live |-> FALSE ]

Top(c) == Head(stack[c])

Idle(c) == stack[c] = <<>>

\* The stack of caller c with its top frame replaced.
GotoF(c, fr) == [stack EXCEPT ![c] = <<fr>> \o Tail(@)]

Goto(c, pc) == GotoF(c, [Top(c) EXCEPT !.pc = pc])

\* ... with a call of callee made by the top frame, which goes on at retpc.
CallF(c, callee, retpc) ==
    [stack EXCEPT ![c] = <<callee, [Head(@) EXCEPT !.pc = retpc]>> \o Tail(@)]

\* ... with the top frame returned.
Ret(c) == [stack EXCEPT ![c] = Tail(@)]

\* A call of init(): nothing to do on an initialized logger (line 83).
WithInit(c, retpc) ==
    IF INITIALIZED \in log.status THEN Goto(c, retpc)
    ELSE CallF(c, Frame("init"), retpc)

\* What the caller's public method returned, once its last frame returns.
RetCode(c, code) ==
    IF Len(stack[c]) = 1 THEN [ret EXCEPT ![c].code = code] ELSE ret

HistRet(c, h) ==
    IF Len(stack[c]) = 1 THEN [h EXCEPT !.invalidated = FALSE] ELSE h

\* One step of caller c: the new medium, object, mutex and stack.  The caller
\* gives up the processor when it suspends (an NVM operation) or returns.
Do(c, f2, l2, m2, st2, suspends, r2, h2) ==
    /\ flash' = f2
    /\ log' = l2
    /\ mutex' = m2
    /\ stack' = st2
    /\ cur' = IF suspends \/ st2[c] = <<>> THEN 0 ELSE c
    /\ ret' = r2
    /\ hist' = h2
    /\ UNCHANGED <<left, stamp, cleaning>>

\* The history once bytes are programmed at address a: whether the medium
\* then holds them as written.
ReadBack(a, bytes, h) ==
    IF ReadBytes(FlashProgram(flash, a, bytes), a, Len(bytes)) = bytes THEN h
    ELSE [h EXCEPT !.lossy = TRUE]

\* A step of caller c that programs bytes at address a, and suspends.
Program(c, a, bytes, l2, m2, st2, r2, h2) ==
    Do(c, FlashProgram(flash, a, bytes), l2, m2, st2, TRUE, r2, ReadBack(a, bytes, h2))

Return(c, l2, m2, code, h2) ==
    Do(c, flash, l2, m2, Ret(c), FALSE, RetCode(c, code), HistRet(c, h2))

Runs(c) == cur \in {0, c} /\ ~Idle(c)

LiveEntries(f, journalStart, dataStart) ==
    { a \in journalStart..(dataStart - 1) :
        /\ (a - journalStart) % MICROBIT_LOG_JOURNAL_ENTRY_SIZE = 0
        /\ LET j == ReadBytes(f, a, MICROBIT_LOG_JOURNAL_ENTRY_SIZE)
           IN  ~ContainsOnly(j, 255) /\ ~ContainsOnly(j, 0) }

\* An erase loop that stops short of the journal page.
EraseLimitShort(fullErase, L) == IF fullErase THEN L.logEnd ELSE L.startAddress

\* Line 231: the last page clear erases is the one that holds this address.
EraseLimit(fullErase, L) == IF fullErase THEN L.logEnd ELSE L.dataStart

(***************************************************************************)
(* clear(fullErase), lines 199-264.                                        *)
(***************************************************************************)
Clear(c) ==
    /\ Runs(c)
    /\ LET fr == Top(c) IN
       CASE fr.pc = "clear" ->
              \* mutex.wait(); the geometry; the word of zeroes at logEnd
              /\ mutex = 0
              /\ LET L == ClearState(log)
                 IN  Program(c, L.logEnd, Zeros(4), L, c,
                        GotoF(c, [fr EXCEPT !.pc = "clear_erase", !.p = FlashStart]), ret,
                        [hist EXCEPT !.clean = FALSE, !.expect = <<>>,
                                     !.noResources = FALSE, !.fullLatched = FALSE,
                                     !.mounted = FALSE, !.cleared = FALSE])
         [] fr.pc = "clear_erase" ->
              \* the pages up to dataStart (or logEnd), then the header
              IF fr.p <= EraseLimit(fr.fullErase, log)
              THEN Do(c, FlashErase(flash, fr.p), log, mutex,
                      GotoF(c, [fr EXCEPT !.p = @ + PageSize]), TRUE, ret,
                      IF fr.p = log.journalStart
                      THEN [hist EXCEPT !.programmed = 0] ELSE hist)
              ELSE Program(c, FlashStart, HeaderBytes, log, mutex,
                      Goto(c, "clear_meta"), ret, hist)
         [] fr.pc = "clear_meta" ->
              Program(c, log.startAddress,
                                 MetaDataRecord(log.dataStart, log.logEnd),
                 log, mutex, Goto(c, "clear_journal"), ret, hist)
         [] fr.pc = "clear_journal" ->
              Program(c, log.journalHead, JournalEntryNew,
                 log, mutex, Goto(c, "clear_config"), ret, hist)
         [] fr.pc = "clear_config" ->
              \* setConfiguration, remount; initialized; mutex.notify()
              Return(c, [log EXCEPT !.status = @ \cup {INITIALIZED}], 0, "void",
                     [hist EXCEPT !.clean = TRUE, !.cleared = TRUE])
         [] OTHER -> FALSE

(***************************************************************************)
(* init(), lines 80-193.                                                   *)
(***************************************************************************)
InitLog(c) ==
    /\ Runs(c)
    /\ LET fr == Top(c) IN
       CASE fr.pc = "init" ->
              IF INITIALIZED \in log.status
              THEN Return(c, log, mutex, "void", hist)
              ELSE IF ReadMetaData(flash).valid
              THEN Return(c, Mount(log, flash), mutex, "void",
                          [hist EXCEPT !.mounted = TRUE])
              ELSE Do(c, flash, LoadMetaData(log, flash), mutex,
                      CallF(c, Frame("clear"), "init_ret"), FALSE, ret, hist)
         [] fr.pc = "init_ret" -> Return(c, log, mutex, "void", hist)
         [] OTHER -> FALSE

(***************************************************************************)
(* logString of a C string, lines 532-627.                                 *)
(***************************************************************************)
Min(a, b) == IF a <= b THEN a ELSE b

SpaceOnPage(dataEnd) == PageSize - (dataEnd % PageSize)

\* Line 565: the next page is erased when this write fills the current one.
EraseNeeded(l, dataEnd, logEnd) ==
    SpaceOnPage(dataEnd) <= l /\ dataEnd + SpaceOnPage(dataEnd) < logEnd

\* Line 543, in 32-bit unsigned arithmetic: a negative difference is a number
\* of 2^31 or more, which no length exceeds.
DoesNotFit(l, dataEnd, logEnd) == logEnd >= dataEnd /\ l > logEnd - dataEnd

\* Line 584.
CrossedBlock(dataEnd, oldDataEnd) ==
    (dataEnd \div CONFIG_MICROBIT_LOG_CACHE_BLOCK_SIZE)
        # (oldDataEnd \div CONFIG_MICROBIT_LOG_CACHE_BLOCK_SIZE)

\* The length of the data as it is, not rounded to the block size.
CommittedLengthExact(dataEnd, dataStart) == dataEnd - dataStart

\* Line 610: the committed length, a multiple of the block size.
CommittedLength(dataEnd, dataStart) ==
    (((dataEnd - dataStart) \div CONFIG_MICROBIT_LOG_CACHE_BLOCK_SIZE)
        * CONFIG_MICROBIT_LOG_CACHE_BLOCK_SIZE)

\* The journal head moved on by the size of a JournalEntry object, which has
\* a terminating byte after the entry.
NextJournalHeadBySizeof(journalHead, journalStart, dataStart) ==
    journalHead + MICROBIT_LOG_JOURNAL_ENTRY_SIZE + 1

\* Lines 590-601: where the next journal entry goes.
NextJournalHead(journalHead, journalStart, dataStart) ==
    LET next == journalHead + MICROBIT_LOG_JOURNAL_ENTRY_SIZE
    IN  IF next % PageSize = 0 /\ next = dataStart THEN journalStart ELSE next

\* Line 593: the entry is the first of its page, which is erased first.
OnNewJournalPage(journalHead) ==
    (journalHead + MICROBIT_LOG_JOURNAL_ENTRY_SIZE) % PageSize = 0

\* Line 575: the bytes of the data written next.
Chunk(data, dataEnd) == SubSeq(data, 1, Min(Len(data), SpaceOnPage(dataEnd)))

\* The history once n bytes are programmed at dataEnd: how far from dataStart
\* the data region has been programmed since clear last erased the journal.
Programmed(L, n) ==
    [hist EXCEPT !.programmed = IF L.dataEnd + n - L.dataStart > @
                                THEN L.dataEnd + n - L.dataStart ELSE @]

LogString(c) ==
    /\ Runs(c)
    /\ LET fr == Top(c) IN
       CASE fr.pc = "logString" ->
              \* mutex.wait(); init()
              /\ mutex = 0
              /\ Do(c, flash, log, c, WithInit(c, "ls_check"), FALSE, ret, hist)
         [] fr.pc = "ls_check" ->
              IF DoesNotFit(Len(fr.data), log.dataEnd, log.logEnd)
              THEN IF FULL \notin log.status
                   THEN Program(c, log.logEnd + 1, <<70, 85, 76>>,
                           log, mutex, Goto(c, "ls_full"), ret, hist)
                   ELSE Return(c, log, 0, "NO_RESOURCES",
                               [hist EXCEPT !.noResources = TRUE, !.clean = FALSE,
                                            !.expect = <<>>])
              ELSE LET data == Cleaned(fr.data, FALSE)
                   IN  Do(c, flash, log, mutex,
                          GotoF(c, [fr EXCEPT !.pc = "ls_loop", !.data = data,
                                              !.oldDataEnd = log.dataEnd]),
                          FALSE, ret,
                          IF hist.clean THEN [hist EXCEPT !.expect = @ \o data] ELSE hist)
         [] fr.pc = "ls_full" ->
              Return(c, [log EXCEPT !.status = @ \cup {FULL}], 0, "NO_RESOURCES",
                     [hist EXCEPT !.noResources = TRUE, !.clean = FALSE,
                                  !.expect = <<>>, !.fullLatched = TRUE])
         [] fr.pc = "ls_loop" ->
              IF Len(fr.data) = 0 THEN Do(c, flash, log, mutex, Goto(c, "ls_commit"),
                                          FALSE, ret, hist)
              ELSE IF EraseNeeded(Len(fr.data), log.dataEnd, log.logEnd)
              THEN Do(c, FlashErase(flash, ((log.dataEnd \div PageSize) + 1) * PageSize),
                      log, mutex, Goto(c, "ls_write"), TRUE, ret, hist)
              ELSE Program(c, log.dataEnd, Chunk(fr.data, log.dataEnd),
                      log, mutex, Goto(c, "ls_advance"), ret,
                      Programmed(log, Len(Chunk(fr.data, log.dataEnd))))
         [] fr.pc = "ls_write" ->
              Program(c, log.dataEnd, Chunk(fr.data, log.dataEnd),
                 log, mutex, Goto(c, "ls_advance"), ret,
                 Programmed(log, Len(Chunk(fr.data, log.dataEnd))))
         [] fr.pc = "ls_advance" ->
              LET n == Len(Chunk(fr.data, log.dataEnd))
              IN  Do(c, flash, [log EXCEPT !.dataEnd = @ + n], mutex,
                     GotoF(c, [fr EXCEPT !.pc = "ls_loop",
                                         !.data = SubSeq(@, n + 1, Len(@))]),
                     FALSE, ret, hist)
         [] fr.pc = "ls_commit" ->
              IF ~CrossedBlock(log.dataEnd, fr.oldDataEnd)
              THEN Return(c, log, 0, "OK", hist)
              ELSE LET head == NextJournalHead(log.journalHead, log.journalStart,
                                               log.dataStart)
                       L == [log EXCEPT !.journalHead = head]
                       fr2 == [fr EXCEPT !.oldJournalHead = log.journalHead,
                                         !.live = LiveEntries(flash, log.journalStart,
                                                              log.dataStart) # {}]
                   IN  IF OnNewJournalPage(log.journalHead)
                       THEN Do(c, FlashErase(flash, head), L, mutex,
                               GotoF(c, [fr2 EXCEPT !.pc = "ls_jwrite"]), TRUE, ret,
                               [hist EXCEPT !.commits = @ + 1])
                       ELSE Program(c, head,
                                   JournalEntryFor(CommittedLength(log.dataEnd, log.dataStart)),
                               L, mutex, GotoF(c, [fr2 EXCEPT !.pc = "ls_jzero"]), ret, [hist EXCEPT !.commits = @ + 1])
         [] fr.pc = "ls_jwrite" ->
              Program(c, log.journalHead,
                     JournalEntryFor(CommittedLength(log.dataEnd, log.dataStart)),
                 log, mutex, Goto(c, "ls_jzero"), ret, hist)
         [] fr.pc = "ls_jzero" ->
              Program(c, fr.oldJournalHead, JournalEntryCleared,
                 log, mutex, Goto(c, "ls_done"), ret, hist)
         [] fr.pc = "ls_done" -> Return(c, log, 0, "OK", hist)
         [] OTHER -> FALSE

(***************************************************************************)
(* endRow(), lines 395-493.                                                *)
(***************************************************************************)
\* logData as endRow calls it for the time stamp: init() has run; a row is
\* begun if none is open.
LogDataNow(L, key, value) ==
    StoreValue(IF ROW_STARTED \in L.status THEN L ELSE ResetRow(L), key, value)

\* Lines 402-436.
Stamped(L, now) ==
    IF L.timeStampFormat = TimeStampNone THEN L
    ELSE LogDataNow(L, L.timeStampHeading, TimeStampString(L.timeStampFormat, now))

\* What a mount of medium f recovers: the end of the data, the data and the
\* columns.
View(f, m) ==
    [ dataEnd |-> m.dataEnd,
      data |-> ReadBytes(f, m.dataStart, m.dataEnd - m.dataStart),
      columns |-> [i \in 1..Len(m.rowData) |-> m.rowData[i].key] ]

Recovered(f) == View(f, Mount(Constructed, f))

\* The medium as it is when endRow starts to write, and as a mount is to find
\* it once this endRow has returned.
SnapshotOf(L, before, added) ==
    [ on |-> TRUE, before |-> before,
      fits |-> L.dataEnd + Len(added) <= L.logEnd,
      after |-> [ dataEnd |-> before.dataEnd + Len(added),
                  data |-> before.data \o added,
                  columns |-> [i \in 1..Len(L.rowData) |-> L.rowData[i].key] ] ]

RowSnapshot(L, f) ==
    SnapshotOf(L, Recovered(f),
               (IF L.headingsChanged THEN HeaderLine(L.rowData) ELSE <<>>)
                 \o (IF RowEmpty(L.rowData) THEN <<>> ELSE RowLine(L.rowData)))

NoView == [dataEnd |-> 0, data |-> <<>>, columns |-> <<>>]

NoSnapshot == [on |-> FALSE, before |-> NoView, fits |-> FALSE, after |-> NoView]

\* Lines 441-465: the headings, written after those they replace are zeroed.
\* headingStart is set on the first write only and headingLength is not
\* updated.
WriteHeadings(c, fr, L, snap) ==
    IF L.headingLength > 0
    THEN Program(c, L.headingStart, Zeros(L.headingLength),
            L, mutex,
            GotoF(c, [fr EXCEPT !.pc = "er_hzero", !.h = HeaderLine(L.rowData)]), ret, snap)
    ELSE Program(c, L.headingStart, HeaderLine(L.rowData),
            L, mutex,
            GotoF(c, [fr EXCEPT !.pc = "er_hlog", !.h = HeaderLine(L.rowData)]), ret, snap)

\* Lines 438-466, on the logger L0 that holds the time stamp.
Headings(c, fr, L0, snap) ==
    IF ~L0.headingsChanged
    THEN Do(c, flash, L0, mutex, Goto(c, "er_row"), FALSE, ret, snap)
    ELSE WriteHeadings(c, fr,
                       IF L0.headingStart = 0
                       THEN [L0 EXCEPT !.headingStart = L0.startAddress + MetaDataSize]
                       ELSE L0,
                       snap)

StampedRow(c, fr, L0) ==
    Headings(c, fr, L0, [hist EXCEPT !.rowSnap = RowSnapshot(L0, flash)])

EndRow(c) ==
    /\ Runs(c)
    /\ LET fr == Top(c) IN
       CASE fr.pc = "endRow" ->
              IF ROW_STARTED \notin log.status
              THEN Return(c, log, mutex, "INVALID_STATE", hist)
              ELSE Do(c, flash, log, mutex, WithInit(c, "er_stamp"), FALSE, ret, hist)
         [] fr.pc = "er_stamp" ->
              StampedRow(c, fr, Stamped(log, fr.now))
         [] fr.pc = "er_hzero" ->
              LET L == [log EXCEPT !.headingStart = @ + log.headingLength]
              IN  Program(c, L.headingStart, fr.h, L, mutex,
                     Goto(c, "er_hlog"), ret, hist)
         [] fr.pc = "er_hlog" ->
              Do(c, flash, log, mutex,
                 CallF(c, [Frame("logString") EXCEPT !.data = fr.h], "er_hdone"),
                 FALSE, ret, hist)
         [] fr.pc = "er_hdone" ->
              Do(c, flash, [log EXCEPT !.headingsChanged = FALSE], mutex,
                 Goto(c, "er_row"), FALSE, ret, hist)
         [] fr.pc = "er_row" ->
              IF RowEmpty(log.rowData)
              THEN Do(c, flash, log, mutex, Goto(c, "er_fin"), FALSE, ret, hist)
              ELSE Do(c, flash, log, mutex,
                      CallF(c, [Frame("logString") EXCEPT !.data = RowLine(log.rowData)],
                            "er_fin"),
                      FALSE, ret, hist)
         [] fr.pc = "er_fin" ->
              Return(c, [log EXCEPT !.status = @ \ {ROW_STARTED}], mutex,
                     IF FULL \in log.status THEN "NO_RESOURCES" ELSE "OK",
                     [hist EXCEPT !.rowSnap = NoSnapshot, !.ended = TRUE])
         [] OTHER -> FALSE

(***************************************************************************)
(* beginRow(), logData(), setTimeStamp(), invalidate().                    *)
(***************************************************************************)
\* beginRow, lines 317-333.
BeginRow(c) ==
    /\ Runs(c)
    /\ LET fr == Top(c) IN
       CASE fr.pc = "beginRow" ->
              Do(c, flash, log, mutex, WithInit(c, "br_end"), FALSE, ret, hist)
         [] fr.pc = "br_end" ->
              IF ROW_STARTED \in log.status
              THEN Do(c, flash, log, mutex,
                      CallF(c, [Frame("endRow") EXCEPT !.now = fr.now], "br_reset"),
                      FALSE, ret, hist)
              ELSE Do(c, flash, log, mutex, Goto(c, "br_reset"), FALSE, ret, hist)
         [] fr.pc = "br_reset" -> Return(c, ResetRow(log), mutex, "OK", hist)
         [] OTHER -> FALSE

\* logData, lines 354-389.
LogData(c) ==
    /\ Runs(c)
    /\ LET fr == Top(c) IN
       CASE fr.pc = "logData" ->
              Do(c, flash, log, mutex, WithInit(c, "ld_store"), FALSE, ret, hist)
         [] fr.pc = "ld_store" ->
              Return(c, LogDataNow(log, fr.key, fr.value), mutex, "OK", hist)
         [] OTHER -> FALSE

\* setTimeStamp, lines 273-310.
SetTimeStamp(c) ==
    /\ Runs(c)
    /\ LET fr == Top(c) IN
       CASE fr.pc = "setTimeStamp" ->
              Do(c, flash, log, mutex, WithInit(c, "ts_set"), FALSE, ret, hist)
         [] fr.pc = "ts_set" ->
              LET L == [log EXCEPT !.timeStampFormat = fr.format]
              IN  IF fr.format = TimeStampNone
                  THEN Return(c, L, mutex, "void", hist)
                  ELSE Return(c, AddHeading(
                                  [L EXCEPT !.timeStampHeading = TimeStampHeadingFor(fr.format)],
                                  TimeStampHeadingFor(fr.format), <<>>),
                              mutex, "void", hist)
         [] OTHER -> FALSE

\* The history once invalidate has run: the log written since the last clear
\* is given up.
Unformatted == [hist EXCEPT !.clean = FALSE, !.expect = <<>>, !.cleared = FALSE]

\* invalidate, lines 678-692.
Invalidate(c) ==
    /\ Runs(c)
    /\ LET fr == Top(c) IN
       CASE fr.pc = "invalidate" ->
              IF IsPresent(log, flash)
              THEN LET L == IF INITIALIZED \in log.status THEN log
                            ELSE LoadMetaData(log, flash)
                   IN  Program(c, L.startAddress, Zeros(MetaDataSize),
                          L, mutex, Goto(c, "inv_full"), ret, Unformatted)
              ELSE Do(c, flash,
                      [LoadMetaData(log, flash) EXCEPT !.status = @ \ {INITIALIZED}],
                      mutex, Ret(c), FALSE, RetCode(c, "void"), Unformatted)
         [] fr.pc = "inv_full" ->
              Program(c, log.logEnd, Zeros(4), log, mutex,
                 Goto(c, "inv_done"), ret, hist)
         [] fr.pc = "inv_done" ->
              Do(c, flash, [log EXCEPT !.status = @ \ {INITIALIZED}], mutex, Ret(c),
                 FALSE, RetCode(c, "void"), [hist EXCEPT !.invalidated = TRUE])
         [] OTHER -> FALSE

(***************************************************************************)
(* The callers: fibers that call the public methods, one call at a time    *)
(* each.  A caller runs from its call to its first NVM operation, and from *)
(* one NVM operation to the next; a caller that finds the mutex taken      *)
(* waits.                                                                  *)
(***************************************************************************)
Pending(op) ==
    [ op |-> op, code |-> "pending", after |-> hist.noResources,
      open |-> ROW_STARTED \in log.status, init |-> INITIALIZED \in log.status ]

NoCall ==
    [ op |-> "none", code |-> "none", after |-> FALSE, open |-> FALSE,
      init |-> FALSE ]

\* Caller c calls a public method: fr is the method's frame, l2 what is then
\* left of the bounds, and script the place in the sequence
\* clear(); logData("k", "v"); endRow() this call takes.
Call(c, op, fr, l2, script) ==
    /\ cur = 0
    /\ Idle(c)
    /\ c = 1 \/ left.conc > 0
    /\ stack' = [stack EXCEPT ![c] = <<fr>>]
    /\ cur' = c
    /\ ret' = [ret EXCEPT ![c] = Pending(op)]
    /\ hist' = [hist EXCEPT !.script = script, !.commits = 0, !.ended = FALSE]
    /\ left' = IF c = 1 THEN l2 ELSE [l2 EXCEPT !.conc = @ - 1]
    /\ UNCHANGED <<flash, log, mutex, stamp, cleaning>>

CallClear(c) ==
    \E fullErase \in BOOLEAN :
        /\ left.work >= CallCost
        /\ Call(c, "clear", [Frame("clear") EXCEPT !.fullErase = fullErase],
                [left EXCEPT !.work = @ - CallCost], 1)

CallInit(c) ==
    /\ left.work >= CallCost
    /\ Call(c, "init", Frame("init"), [left EXCEPT !.work = @ - CallCost], 0)

\* The fills are the cheap calls: a run may hold enough of them to take the
\* journal around its ring and the data to logEnd.
StringCost(s) == IF s \in {FillBlock, FillPage} THEN FillCost ELSE CallCost

CallLogString(c) ==
    \E s \in Strings :
        /\ left.work >= StringCost(s)
        /\ Call(c, "logString", [Frame("logString") EXCEPT !.data = s],
                [left EXCEPT !.work = @ - StringCost(s)], 0)

CallLogData(c) ==
    \E key \in Keys, value \in Values :
        /\ left.work >= CallCost
        /\ Call(c, "logData", [Frame("logData") EXCEPT !.key = key, !.value = value],
                [left EXCEPT !.work = @ - CallCost],
                IF hist.script = 1 /\ key = <<107>> /\ value = <<118>> THEN 2 ELSE 0)

CallBeginRow(c) ==
    \E now \in Clock :
        /\ left.work >= CallCost
        /\ Call(c, "beginRow", [Frame("beginRow") EXCEPT !.now = now],
                [left EXCEPT !.work = @ - CallCost], 0)

CallEndRow(c) ==
    \E now \in Clock :
        /\ left.work >= CallCost
        /\ Call(c, "endRow", [Frame("endRow") EXCEPT !.now = now],
                [left EXCEPT !.work = @ - CallCost],
                IF hist.script = 2 THEN 3 ELSE 0)

CallSetTimeStamp(c) ==
    \E format \in Formats :
        /\ left.work >= CallCost
        /\ Call(c, "setTimeStamp", [Frame("setTimeStamp") EXCEPT !.format = format],
                [left EXCEPT !.work = @ - CallCost], 0)

CallInvalidate(c) ==
    /\ left.work >= CallCost
    /\ Call(c, "invalidate", Frame("invalidate"),
            [left EXCEPT !.work = @ - CallCost], 0)

\* mutex.wait() on a mutex that is taken: the caller is descheduled.
WaitsForMutex(c) ==
    /\ ~Idle(c)
    /\ Top(c).pc \in {"clear", "logString"}
    /\ mutex # 0

Block(c) ==
    /\ cur = c
    /\ WaitsForMutex(c)
    /\ cur' = 0
    /\ UNCHANGED <<flash, log, mutex, stack, ret, hist, left, stamp, cleaning>>

NoHistory ==
    [ expect |-> <<>>, clean |-> FALSE, noResources |-> FALSE, fullLatched |-> FALSE,
      mounted |-> FALSE, cleared |-> FALSE, invalidated |-> FALSE, script |-> 0,
      commits |-> 0, programmed |-> 0, ended |-> FALSE, lossy |-> FALSE,
      rowSnap |-> NoSnapshot ]

\* A reset or a loss of power between two NVM operations: RAM is lost, the
\* medium is kept.
Reset ==
    /\ cur = 0
    /\ left.work >= CallCost
    /\ left' = [left EXCEPT !.work = @ - CallCost]
    /\ log' = Constructed
    /\ mutex' = 0
    /\ stack' = [c \in Callers |-> <<>>]
    /\ cur' = 0
    /\ ret' = [c \in Callers |-> NoCall]
    /\ hist' = [NoHistory EXCEPT !.fullLatched = hist.fullLatched,
                                 !.programmed = hist.programmed]
    /\ UNCHANGED <<flash, stamp, cleaning>>

Budget == [work |-> MaxWork, conc |-> 0]

BudgetConc == [work |-> MaxConcWork, conc |-> MaxConcOps]

Blank == [a \in Addr |-> 255]

\* No time stamp is being rendered.
NoStamp == [format |-> TimeStampNone, billions |-> 0, units |-> 0, text |-> <<>>]

\* No string is being cleaned.
NoCleaning ==
    [s |-> <<>>, removeSeparators |-> FALSE, out |-> <<>>, again |-> <<>>,
     applied |-> 0]

Start(budget) ==
    /\ stamp = NoStamp
    /\ cleaning = NoCleaning
    /\ flash = Blank
    /\ log = Constructed
    /\ mutex = 0
    /\ stack = [c \in Callers |-> <<>>]
    /\ cur = 0
    /\ ret = [c \in Callers |-> NoCall]
    /\ hist = NoHistory
    /\ left = budget

Init == Start(Budget)

InitConc == Start(BudgetConc)

Next ==
    \/ \E c \in Callers : CallClear(c)
    \/ \E c \in Callers : CallInit(c)
    \/ \E c \in Callers : CallLogString(c)
    \/ \E c \in Callers : CallLogData(c)
    \/ \E c \in Callers : CallBeginRow(c)
    \/ \E c \in Callers : CallEndRow(c)
    \/ \E c \in Callers : CallSetTimeStamp(c)
    \/ \E c \in Callers : CallInvalidate(c)
    \/ \E c \in Callers : Clear(c)
    \/ \E c \in Callers : InitLog(c)
    \/ \E c \in Callers : LogString(c)
    \/ \E c \in Callers : EndRow(c)
    \/ \E c \in Callers : BeginRow(c)
    \/ \E c \in Callers : LogData(c)
    \/ \E c \in Callers : SetTimeStamp(c)
    \/ \E c \in Callers : Invalidate(c)
    \/ \E c \in Callers : Block(c)
    \/ Reset

\* One caller.
Spec == Init /\ [][Next]_vars

\* Two callers.
SpecConc == InitConc /\ [][Next]_vars

(***************************************************************************)
(* The time stamp of endRow alone, lines 406-433, for clock readings beyond *)
(* the range of the integers here.  A reading is given by the quotient t of *)
(* line 406 (every t is the quotient of the reading t * divisor), and t by  *)
(* its two parts: t = billions * 10^9 + units.                              *)
(***************************************************************************)
FractionalFormats == {TimeStampSeconds, TimeStampMinutes, TimeStampHours, TimeStampDays}
Billions == {0, 1, 2, 99, 100, 123}
Units == {0, 7, 99, 100, 12345, 999999999}

InitStamp ==
    /\ flash = Blank
    /\ log = Constructed
    /\ mutex = 0
    /\ stack = [c \in Callers |-> <<>>]
    /\ cur = 0
    /\ ret = [c \in Callers |-> NoCall]
    /\ hist = NoHistory
    /\ left = Budget
    /\ stamp \in [format : FractionalFormats, billions : Billions, units : Units,
                  text : {<<>>}]
    /\ cleaning = NoCleaning

\* Lines 407-433 on the reading.
RenderStamp ==
    /\ stamp.text = <<>>
    /\ stamp' = [stamp EXCEPT
                    !.text = TimeStampText(stamp.format, stamp.billions, stamp.units)]
    /\ UNCHANGED <<flash, log, mutex, stack, cur, ret, hist, left, cleaning>>

NextStamp == RenderStamp

SpecStamp == InitStamp /\ [][NextStamp]_vars

(***************************************************************************)
(* cleanBuffer alone, lines 503-526, on every string of up to MaxLen bytes *)
(* of the symbols it looks for, the replacement byte and a letter.         *)
(***************************************************************************)
MaxLen == 4

CleanAlphabet == {45, 62, 9, 44, 10, 97, CONFIG_MICROBIT_LOG_INVALID_CHAR_VALUE}

CleanInputs == UNION {[1..n -> CleanAlphabet] : n \in 0..MaxLen}

InitClean ==
    /\ flash = Blank
    /\ log = Constructed
    /\ mutex = 0
    /\ stack = [c \in Callers |-> <<>>]
    /\ cur = 0
    /\ ret = [c \in Callers |-> NoCall]
    /\ hist = NoHistory
    /\ left = Budget
    /\ stamp = NoStamp
    /\ cleaning \in [s : CleanInputs, removeSeparators : BOOLEAN, out : {<<>>},
                     again : {<<>>}, applied : {0}]

\* cleanBuffer(s, len, removeSeparators).
CleanOnce ==
    /\ cleaning.applied = 0
    /\ cleaning' = [cleaning EXCEPT
                       !.out = CleanBuffer(cleaning.s, cleaning.removeSeparators),
                       !.applied = 1]
    /\ UNCHANGED <<flash, log, mutex, stack, cur, ret, hist, left, stamp>>

\* cleanBuffer of what the first call returned.
CleanAgain ==
    /\ cleaning.applied = 1
    /\ cleaning' = [cleaning EXCEPT
                       !.again = CleanBuffer(cleaning.out, cleaning.removeSeparators),
                       !.applied = 2]
    /\ UNCHANGED <<flash, log, mutex, stack, cur, ret, hist, left, stamp>>

NextClean == CleanOnce \/ CleanAgain

SpecClean == InitClean /\ [][NextClean]_vars

(***************************************************************************)
(* Properties.                                                             *)
(***************************************************************************)
AllIdle == \A c \in Callers : Idle(c)

\* No caller is inside a method and none is on the processor.
Settled == cur = 0 /\ AllIdle

Returned(c, op) == Idle(c) /\ ret[c].op = op /\ ret[c].code # "pending"

KeysOf(rowData) == [i \in 1..Len(rowData) |-> rowData[i].key]

NotZero(b) == b # 0

StripZeros(s) == SelectSeq(s, NotZero)

DataRegion == ReadBytes(flash, log.dataStart, log.dataEnd - log.dataStart)

\* C1: at every point between two NVM operations of one endRow (whose header
\* line and row fit), a mount of the medium recovers either what it recovered
\* before this endRow (dataEnd, data and columns) or the data with the whole
\* header line and row added; never a part of them, and never the new columns
\* without their row.
C1_EndRowIsAtomic ==
    (cur = 0 /\ hist.rowSnap.on /\ hist.rowSnap.fits)
        => LET r == Recovered(flash)
           IN  \/ r = hist.rowSnap.before
               \/ /\ r.dataEnd = hist.rowSnap.after.dataEnd
                  /\ r.data = hist.rowSnap.after.data

\* C2: after clear and any completed calls since, with no reset and no
\* invalidate in between, a mount of the medium by a logger fresh from reset
\* finds the journalHead and the dataEnd that the logger holds in RAM.
C2_RecoveryAgreesWithRam ==
    (Settled /\ hist.cleared /\ INITIALIZED \in log.status)
        => LET m == Mount(Constructed, flash)
           IN  m.journalHead = log.journalHead /\ m.dataEnd = log.dataEnd

\* C3: after clear and appends that all fitted, the bytes of
\* [dataStart, dataEnd), runs of 0x00 removed, are the header lines, rows and
\* strings appended, in call order; and clear(); logData("k", "v"); endRow()
\* with no time stamp leaves "k\nv\n".
C3_DataIsConcatenation ==
    (Settled /\ hist.clean)
        => /\ StripZeros(DataRegion) = hist.expect
           /\ (hist.script = 3 /\ log.timeStampFormat = TimeStampNone)
                 => /\ log.dataStart = StartAddress + 2 * PageSize
                    /\ DataRegion = <<107, 10, 118, 10>>

\* C3's case: clear(); logData("k", "v"); endRow() has run.
C3_Witness ==
    /\ Settled
    /\ hist.clean
    /\ hist.script = 3
    /\ log.timeStampFormat = TimeStampNone
    /\ hist.expect = <<107, 10, 118, 10>>

\* C4: a logString called after an append returned NO_RESOURCES, with no
\* clear since, returns NO_RESOURCES.
C4_NoResourcesLatches ==
    \A c \in Callers :
        (Returned(c, "logString") /\ ret[c].after /\ hist.noResources)
            => ret[c].code = "NO_RESOURCES"

\* C5: when FULL was latched, and the device was reset and has mounted the
\* medium with no clear since, isFull() is true.
C5_FullPersists ==
    (hist.fullLatched /\ hist.mounted /\ INITIALIZED \in log.status)
        => FULL \in log.status

\* What clear() leaves.
Formatted ==
    /\ ReadBytes(flash, FlashStart, HeaderSize) = HeaderBytes
    /\ ReadMetaData(flash).valid
    /\ ReadMetaData(flash).dataStart = log.dataStart
    /\ ReadMetaData(flash).logEnd = log.logEnd
    /\ LiveEntries(flash, log.journalStart, log.dataStart) \subseteq {log.journalStart}
    /\ Mount(Constructed, flash).journalHead = log.journalStart
    /\ Strtoul16(ReadBytes(flash, log.journalStart, MICROBIT_LOG_JOURNAL_ENTRY_SIZE)) = 0
    /\ Mount(Constructed, flash).dataEnd = log.dataStart
    /\ Mount(Constructed, flash).rowData = <<>>
    /\ ReadBytes(flash, log.logEnd + 1, 3) # <<70, 85, 76>>

C7_NextCallReturns ==
    hist.invalidated => \A c \in Callers : ~(WaitsForMutex(c) /\ mutex = c)

Mutators == {"clear", "invalidate", "beginRow", "logData", "endRow", "logString"}

\* A caller is suspended at an NVM write or erase inside a mutating method: it
\* is off the processor and is not waiting for the mutex.
SuspendedInBody(c) ==
    /\ ~Idle(c)
    /\ cur # c
    /\ ret[c].op \in Mutators
    /\ Top(c).pc \notin {"clear", "logString"}

\* A caller runs the part of a mutating method that reads or changes rowData.
AtRowData(c) ==
    /\ cur = c
    /\ ~Idle(c)
    /\ ret[c].op \in Mutators
    /\ Top(c).pc \in {"ld_store", "br_reset", "er_stamp", "er_row"}

\* C8: while a caller is suspended at an NVM operation inside clear,
\* invalidate, beginRow, logData, endRow or logString, no other caller runs
\* the part of one of these methods that reads or changes rowData.
C8_MutatorsSerialise ==
    \A c \in Callers, d \in Callers :
        (c # d /\ SuspendedInBody(c)) => ~AtRowData(d)

\* C9: whenever no call is in progress on an initialized logger and no header
\* change is pending, the columns a mount parses from the medium are the
\* columns in RAM, in order.
C9_HeadingsMatchRam ==
    (Settled /\ INITIALIZED \in log.status /\ ~log.headingsChanged)
        => KeysOf(Mount(Constructed, flash).rowData) = KeysOf(log.rowData)

\* C10: from the start of a journal commit made while an entry was live to
\* its end, the journal holds a live entry.
C10_JournalAlwaysLive ==
    \A c \in Callers :
        (~Idle(c) /\ Top(c).pc \in {"ls_jwrite", "ls_jzero", "ls_done"} /\ Top(c).live)
            => LiveEntries(flash, log.journalStart, log.dataStart) # {}

\* C11: whenever no call is in progress on an initialized logger, one or two
\* entries of the journal are neither all 0xFF nor all 0x00; and exactly one
\* is when the call that returned last is an endRow that returned OK and
\* made no journal commit.
C11_OneOrTwoLive ==
    (Settled /\ INITIALIZED \in log.status)
        => /\ Cardinality(LiveEntries(flash, log.journalStart, log.dataStart)) \in {1, 2}
           /\ (Returned(1, "endRow") /\ ret[1].code = "OK" /\ hist.commits = 0)
                 => Cardinality(LiveEntries(flash, log.journalStart, log.dataStart)) = 1

\* The value of the journal entry at address a, as init reads it.
EntryValue(a) == Strtoul16(ReadBytes(flash, a, MICROBIT_LOG_JOURNAL_ENTRY_SIZE))

\* C12: whenever no call is in progress on an initialized logger, the value V
\* of every live journal entry is a multiple of the block size, and
\* dataStart + V <= dataEnd <= logEnd.
C12_LiveEntryBounds ==
    (Settled /\ INITIALIZED \in log.status)
        => \A a \in LiveEntries(flash, log.journalStart, log.dataStart) :
               /\ EntryValue(a) % CONFIG_MICROBIT_LOG_CACHE_BLOCK_SIZE = 0
               /\ log.dataStart + EntryValue(a) <= log.dataEnd
               /\ log.dataEnd <= log.logEnd

\* C13: whenever no call is in progress on an initialized logger, the bytes of
\* [dataEnd, logEnd) are 0xFF unless FULL is latched, and "FUL" is at
\* logEnd + 1 when FULL is latched.
C13_UnusedAfterDataEnd ==
    (Settled /\ INITIALIZED \in log.status)
        => /\ FULL \notin log.status
                 => \A a \in log.dataEnd..(log.logEnd - 1) : ReadByte(flash, a) = 255
           /\ FULL \in log.status
                 => ReadBytes(flash, log.logEnd + 1, 3) = <<70, 85, 76>>

\* The geometry clear computes, which is the same at every call.
Geometry == ClearState(Constructed)

\* C14: an append that has reached its journal commit has no data byte left to
\* write, and in every state each live journal entry's value covers only bytes
\* of the data region that appends have programmed.
C14_CommitAfterData ==
    /\ \A c \in Callers :
           (~Idle(c) /\ Top(c).pc \in {"ls_commit", "ls_jwrite", "ls_jzero", "ls_done"})
               => Len(Top(c).data) = 0
    /\ \A a \in LiveEntries(flash, Geometry.journalStart, Geometry.dataStart) :
           EntryValue(a) <= hist.programmed

\* The line occurs in the first n bytes of d.
OccursWithin(line, d, n) ==
    \E i \in 1..n : i + Len(line) - 1 <= n /\ SubSeq(d, i, i + Len(line) - 1) = line

\* The data region ends with the row of caller c's endRow, which that endRow
\* has added.
RowAdded(c, d) ==
    /\ ~Idle(c) /\ Top(c).pc = "er_fin" /\ hist.rowSnap.on
    /\ ~RowEmpty(log.rowData)
    /\ Len(d) >= Len(RowLine(log.rowData))
    /\ SubSeq(d, Len(d) - Len(RowLine(log.rowData)) + 1, Len(d)) = RowLine(log.rowData)
    /\ log.dataEnd - Len(RowLine(log.rowData)) >= hist.rowSnap.before.dataEnd

\* C15: when endRow has added its row to the data region, the header line that
\* lists the row's columns is in the data region before that row.
C15_HeaderBeforeRow ==
    \A c \in Callers :
        RowAdded(c, DataRegion)
            => OccursWithin(HeaderLine(log.rowData), DataRegion,
                            Len(DataRegion) - Len(RowLine(log.rowData)))

\* Every value of the row is empty.
RowIsEmpty == \A i \in 1..Len(log.rowData) : log.rowData[i].value = <<>>

\* Caller c's endRow, called with no row open, takes its step.
EndRowWhenIdle(c) ==
    /\ ~Idle(c) /\ Len(stack[c]) = 1 /\ Top(c).pc = "endRow"
    /\ ROW_STARTED \notin log.status
    /\ stack'[c] # stack[c]

\* C16, the states the calls leave: beginRow and logData return with a row
\* open, beginRow with every value empty and, when a row was open at the call,
\* after an endRow of that row; endRow called with a row open returns with
\* none open, and called with none open returns INVALID_STATE.
C16_RowStateAtReturn ==
    \A c \in Callers :
        /\ Returned(c, "beginRow")
              => /\ ROW_STARTED \in log.status
                 /\ RowIsEmpty
                 /\ ret[c].open => hist.ended
        /\ Returned(c, "logData") => ROW_STARTED \in log.status
        /\ (Returned(c, "endRow") /\ ret[c].open) => ROW_STARTED \notin log.status
        /\ (Returned(c, "endRow") /\ ~ret[c].open) => ret[c].code = "INVALID_STATE"

\* C16: the row state machine of beginRow, logData and endRow, and endRow
\* called with no row open changes neither the logger's RAM state nor the
\* medium.
C16_RowStateMachine ==
    /\ []C16_RowStateAtReturn
    /\ [][\A c \in Callers : EndRowWhenIdle(c) => (log' = log /\ flash' = flash)]_vars

\* beginRow called with a row open on a logger that is not initialized (one
\* that invalidate has marked): init() formats the medium, which drops the
\* open row, and no endRow takes place.
C16_RowStateAtReturnOfInit ==
    \A c \in Callers :
        /\ Returned(c, "beginRow")
              => /\ ROW_STARTED \in log.status
                 /\ RowIsEmpty
                 /\ (ret[c].open /\ ret[c].init) => hist.ended
                 /\ (ret[c].open /\ ~ret[c].init) => (~hist.ended /\ log.rowData = <<>>)
        /\ Returned(c, "logData") => ROW_STARTED \in log.status
        /\ (Returned(c, "endRow") /\ ret[c].open) => ROW_STARTED \notin log.status
        /\ (Returned(c, "endRow") /\ ~ret[c].open) => ret[c].code = "INVALID_STATE"

\* C16, amended: the row state machine as claimed, except that beginRow called
\* with a row open performs the endRow only on an initialized logger; on one
\* that invalidate has marked it formats the medium and drops the open row.
C16_RowStateMachineOfInit ==
    /\ []C16_RowStateAtReturnOfInit
    /\ [][\A c \in Callers : EndRowWhenIdle(c) => (log' = log /\ flash' = flash)]_vars

\* beginRow, called with a row open that holds a value, has returned after the
\* endRow of that row.
C16_Witness ==
    /\ Returned(1, "beginRow") /\ ret[1].open /\ ret[1].init /\ hist.ended
    /\ log.dataEnd > log.dataStart

\* The bytes of the headings region and of the data region of the medium.
HeadingsBytes ==
    ReadBytes(flash, Geometry.startAddress + MetaDataSize,
              Geometry.journalStart - (Geometry.startAddress + MetaDataSize))

DataBytes == ReadBytes(flash, Geometry.dataStart, Geometry.logEnd - Geometry.dataStart)

\* No tab and no "-->" in the bytes.
NoInvalidSymbol(bytes) ==
    /\ \A i \in 1..Len(bytes) : bytes[i] # 9
    /\ \A i \in 1..(Len(bytes) - 2) :
           ~(bytes[i] = 45 /\ bytes[i + 1] = 45 /\ bytes[i + 2] = 62)

\* C17: in every state the headings region and the data region hold no tab and
\* no "-->", the bytes either side of the boundary of two fields or of two
\* appends included.
C17_NoInvalidSymbolOnMedium ==
    NoInvalidSymbol(HeadingsBytes) /\ NoInvalidSymbol(DataBytes)

\* t / 100, ".", and t % 100 in two digits, for t = billions * 10^9 + units:
\* t / 100 is billions * 10^7 + units / 100, and t % 100 is units % 100.
HundredthsText(billions, units) ==
    IntToString(billions * 10000000 + (units \div 100))
        \o <<46>> \o PadString(IntToString(units % 100), 2)

\* C18: for every time unit other than none and milliseconds and every clock
\* reading, readings with t >= 10^9 included, the time stamp that endRow
\* stores is t / 100, ".", and t % 100 in two digits.
C18_TimeStampIsHundredths ==
    stamp.text # <<>> => stamp.text = HundredthsText(stamp.billions, stamp.units)

\* "0x", the eight uppercase hex digits of n, most significant first, and "\n".
HexField(n) ==
    <<48, 120>> \o [i \in 1..8 |-> HexDigit((n \div (16 ^ (8 - i))) % 16)] \o <<10>>

\* C19: once clear has returned, and until the next clear, invalidate or reset,
\* the dataStart and logEnd fields of the metadata on the medium are each the
\* 11 bytes "0x", eight uppercase hex digits and "\n".
C19_MetaDataFields ==
    (Settled /\ hist.cleared)
        => /\ ReadBytes(flash, log.startAddress + VersionLen, FieldLen)
                 = HexField(log.dataStart)
           /\ ReadBytes(flash, log.startAddress + VersionLen + FieldLen, FieldLen)
                 = HexField(log.logEnd)

\* C20: every program operation leaves on the medium the bytes it wrote: no
\* operation has programmed bytes over ones that lack a bit of theirs.
C20_ProgramReadsBack == ~hist.lossy

\* The number of 0x00 bytes at the start of the bytes.
RECURSIVE LeadingZeros(_, _)
LeadingZeros(bytes, i) ==
    IF i <= Len(bytes) /\ bytes[i] = 0 THEN LeadingZeros(bytes, i + 1) ELSE i - 1

\* The region is a run of 0x00, then the line, then unused bytes only.
LineAfterTombstone(region, line) ==
    /\ LeadingZeros(region, 1) + Len(line) <= Len(region)
    /\ SubSeq(region, LeadingZeros(region, 1) + 1, LeadingZeros(region, 1) + Len(line))
           = line
    /\ \A i \in (LeadingZeros(region, 1) + Len(line) + 1)..Len(region) : region[i] = 255

\* C21: when endRow has written a changed header line, the headings region
\* holds 0x00 over the whole of every earlier header line and the complete
\* new line right after that run.
C21_HeaderLineReplaced ==
    \A c \in Callers :
        (~Idle(c) /\ Top(c).pc = "er_hlog")
            => LineAfterTombstone(HeadingsBytes, Top(c).h)

\* The bytes of the journal ring of the medium f, and of its data region.
RingOf(f) ==
    ReadBytes(f, Geometry.journalStart, Geometry.dataStart - Geometry.journalStart)

DataOf(f) == ReadBytes(f, Geometry.dataStart, Geometry.logEnd - Geometry.dataStart)

\* Caller c is at the test of line 543.
AtFitTest(c) == ~Idle(c) /\ Top(c).pc = "ls_check"

\* Caller c takes a step of its own (a reset is none: it alone changes left
\* while a call is in progress).
Steps(c) == ~Idle(c) /\ stack'[c] # stack[c] /\ left' = left

\* Caller c takes a step that ends its call of logString with NO_RESOURCES.
ReturnsNoResources(c) ==
    /\ stack'[c] = Tail(stack[c])
    /\ Len(stack[c]) = 1 => ret'[c].code = "NO_RESOURCES"

\* The step leaves dataEnd, journalHead, the journal ring and the data region.
AppendsNothing ==
    /\ log'.dataEnd = log.dataEnd /\ log'.journalHead = log.journalHead
    /\ RingOf(flash') = RingOf(flash) /\ DataOf(flash') = DataOf(flash)

\* The step of caller c at the test of line 543 with a string longer than
\* logEnd - dataEnd, and the step that follows the write of "FUL".
RefusedStep(c) ==
    /\ (AtFitTest(c) /\ Len(Top(c).data) > log.logEnd - log.dataEnd /\ Steps(c))
          => /\ AppendsNothing
             /\ IF FULL \in log.status
                THEN flash' = flash /\ ReturnsNoResources(c)
                ELSE /\ flash' = FlashProgram(flash, log.logEnd + 1, <<70, 85, 76>>)
                     /\ Head(stack'[c]).pc = "ls_full"
    /\ (~Idle(c) /\ Top(c).pc = "ls_full" /\ Steps(c))
          => /\ AppendsNothing /\ flash' = flash
             /\ FULL \in log'.status
             /\ ReturnsNoResources(c)

\* The step of caller c at the test of line 543 with a string of exactly
\* logEnd - dataEnd bytes goes on to write it.
ExactFitStep(c) ==
    (AtFitTest(c) /\ Len(Top(c).data) = log.logEnd - log.dataEnd /\ Steps(c))
        => Head(stack'[c]).pc = "ls_loop"

\* C22: an append longer than logEnd - dataEnd returns NO_RESOURCES with FULL
\* set, writes "FUL" at logEnd + 1 only when FULL was not set, and leaves
\* dataEnd, journalHead, the journal ring and the data region; an append of
\* exactly logEnd - dataEnd bytes is written.
C22_AppendRefused ==
    [][\A c \in Callers : RefusedStep(c) /\ ExactFitStep(c)]_vars

\* Caller c is at the step pc of the call on top of its stack.
At(c, pc) == ~Idle(c) /\ Top(c).pc = pc

\* The step caller c is at after the step now taken, "" when its call is over.
NextPc(c) == IF stack'[c] = <<>> THEN "" ELSE Head(stack'[c]).pc

\* The length n rounded down to a multiple of the cache block size.
RoundedDown(n) == n - (n % CONFIG_MICROBIT_LOG_CACHE_BLOCK_SIZE)

\* The append of caller c has moved dataEnd into another cache block.
InAnotherBlock(c) ==
    (log.dataEnd \div CONFIG_MICROBIT_LOG_CACHE_BLOCK_SIZE)
        # (Top(c).oldDataEnd \div CONFIG_MICROBIT_LOG_CACHE_BLOCK_SIZE)

\* The step of caller c after the write loop of an append (line 584): the
\* journal head moves on when dataEnd is in another block, and otherwise the
\* append returns with the medium and the logger as they are.
CommitDecided(c) ==
    (At(c, "ls_commit") /\ Steps(c))
        => IF InAnotherBlock(c)
           THEN /\ log'.journalHead # log.journalHead
                /\ NextPc(c) \in {"ls_jwrite", "ls_jzero"}
           ELSE /\ stack'[c] = Tail(stack[c])
                /\ flash' = flash /\ log' = log

\* The step of caller c that writes the journal entry (line 611) programs the
\* rounded length of the data at the journal head.
CommitWritten(c) ==
    (Steps(c) /\ \/ At(c, "ls_jwrite")
                 \/ At(c, "ls_commit") /\ NextPc(c) = "ls_jzero")
        => flash' = FlashProgram(flash, log'.journalHead,
                        JournalEntryFor(RoundedDown(log.dataEnd - log.dataStart)))

\* Every other step of an append leaves the journal head, and the steps of
\* the write loop leave the journal ring.
NoOtherCommit(c) ==
    /\ (Steps(c) /\ Top(c).pc \in {"ls_loop", "ls_write", "ls_advance",
                                   "ls_jwrite", "ls_jzero", "ls_done"})
          => log'.journalHead = log.journalHead
    /\ (Steps(c) /\ Top(c).pc \in {"ls_loop", "ls_write", "ls_advance", "ls_done"})
          => RingOf(flash') = RingOf(flash)

\* C23: an append that is written commits to the journal once when dataEnd has
\* moved into another cache block, however many blocks it crossed, and not at
\* all otherwise; the entry it writes is dataEnd - dataStart rounded down to a
\* multiple of the block size.
C23_OneCommitPerAppend ==
    [][\A c \in Callers : CommitDecided(c) /\ CommitWritten(c) /\ NoOtherCommit(c)]_vars

\* An append that crossed several block boundaries has made its one commit.
C23_Witness ==
    \E c \in Callers :
        /\ At(c, "ls_done")
        /\ (log.dataEnd \div CONFIG_MICROBIT_LOG_CACHE_BLOCK_SIZE)
              > (Top(c).oldDataEnd \div CONFIG_MICROBIT_LOG_CACHE_BLOCK_SIZE) + 1
        /\ hist.commits = 1

\* The journal head of a mounted logger is an entry of the journal ring.
JournalHeadInRing ==
    INITIALIZED \in log.status
        => /\ log.journalStart <= log.journalHead
           /\ log.journalHead < log.dataStart
           /\ (log.journalHead - log.journalStart) % MICROBIT_LOG_JOURNAL_ENTRY_SIZE = 0

\* The entry after the journal head, the first one after the last.
EntryAfterHead ==
    IF log.journalHead + MICROBIT_LOG_JOURNAL_ENTRY_SIZE >= log.dataStart
    THEN log.journalStart
    ELSE log.journalHead + MICROBIT_LOG_JOURNAL_ENTRY_SIZE

\* The step of caller c that moves the journal head (lines 590-606) moves it
\* to the next entry of the ring; when that is the first entry of a page the
\* step erases the page and the entry is written by the step after it.
HeadMovesOn(c) ==
    (At(c, "ls_commit") /\ Steps(c) /\ log'.journalHead # log.journalHead)
        => /\ log'.journalHead = EntryAfterHead
           /\ IF log'.journalHead % PageSize = 0
              THEN /\ flash' = FlashErase(flash, log'.journalHead)
                   /\ NextPc(c) = "ls_jwrite"
              ELSE NextPc(c) = "ls_jzero"

\* C24: journalHead is an entry of the journal ring, a multiple of the entry
\* size from journalStart; a commit moves it on by one entry, from the last
\* entry to journalStart, and when the new entry is the first of a page the
\* page is erased before the entry is written.
C24_JournalHeadInRing ==
    [][JournalHeadInRing' /\ \A c \in Callers : HeadMovesOn(c)]_vars

\* A commit has wrapped the journal head from the last entry to journalStart,
\* has erased the page, and is about to write the entry.
C24_Witness ==
    \E c \in Callers :
        /\ At(c, "ls_jwrite")
        /\ log.journalHead = log.journalStart
        /\ Top(c).oldJournalHead = log.dataStart - MICROBIT_LOG_JOURNAL_ENTRY_SIZE

\* The step is one of a clear.
ClearStep ==
    \E c \in Callers :
        /\ Steps(c)
        /\ Top(c).pc \in {"clear", "clear_erase", "clear_meta", "clear_journal",
                          "clear_config"}

\* The step is a reset of the device with the logger mounted.
ResetStep == INITIALIZED \in log.status /\ log' = Constructed

\* The step leaves every byte of the data written so far that is on the medium.
DataKept ==
    \A a \in (log.dataStart..(log.dataEnd - 1)) \cap Addr : flash'[a] = flash[a]

\* A step that is not one of a clear leaves the data written so far and does
\* not move dataEnd back; after a reset, the mount of the medium as the reset
\* leaves it does not find a dataEnd before the one of the logger.
AppendOnlyStep ==
    /\ ~ClearStep => DataKept
    /\ (~ClearStep /\ INITIALIZED \in log.status /\ INITIALIZED \in log'.status)
          => log'.dataEnd >= log.dataEnd
    /\ (ResetStep /\ ReadMetaData(flash').valid)
          => Mount(Constructed, flash').dataEnd >= log.dataEnd

\* C25: between two clears dataEnd never decreases, across mounts too, and no
\* byte of [dataStart, dataEnd) is changed.
C25_DataAppendOnly == [][AppendOnlyStep]_vars

\* The string s has none of the symbols cleanBuffer replaces.
NothingToReplace(s, removeSeparators) ==
    /\ \A i \in 1..Len(s) :
          /\ s[i] # 9
          /\ removeSeparators => s[i] \notin {44, 10}
    /\ \A i \in 1..(Len(s) - 2) : ~(s[i] = 45 /\ s[i + 1] = 45 /\ s[i + 2] = 62)

\* C26: cleanBuffer is idempotent and keeps the length of its input, for every
\* input and both settings of removeSeparators, inputs with nothing to replace
\* included.
C26_CleanBufferIdempotent ==
    /\ cleaning.applied >= 1 => Len(cleaning.out) = Len(cleaning.s)
    /\ cleaning.applied = 2 => cleaning.again = cleaning.out

\* C26, amended: cleanBuffer returns the empty string for an input with nothing
\* to replace; for any other input it returns a string of the length of the
\* input that has nothing to replace, so that cleanBuffer of it is the empty
\* string.
C26_CleanBufferCopyIfChanged ==
    /\ cleaning.applied >= 1
          => IF NothingToReplace(cleaning.s, cleaning.removeSeparators)
             THEN cleaning.out = <<>>
             ELSE /\ Len(cleaning.out) = Len(cleaning.s)
                  /\ NothingToReplace(cleaning.out, cleaning.removeSeparators)
    /\ cleaning.applied = 2 => cleaning.again = <<>>

\* cleanBuffer has replaced an arrow and a separator, and has been applied to
\* its result.
C26_Witness ==
    /\ cleaning.applied = 2
    /\ cleaning.s = <<45, 45, 62, 44>>
    /\ cleaning.removeSeparators
    /\ cleaning.out = [i \in 1..4 |-> CONFIG_MICROBIT_LOG_INVALID_CHAR_VALUE]

\* The n bytes at address a are in the headings region of the logger L,
\* after the metadata and before the journal.
InHeadings(L, a, n) ==
    n = 0 \/ (L.startAddress + MetaDataSize <= a /\ a + n <= L.journalStart)

\* The step of caller c is one of endRow that writes to the headings region:
\* the run of 0x00 of line 459 or the header line of line 461.
HeadingsWrite(c) ==
    /\ Steps(c)
    /\ At(c, "er_stamp") \/ At(c, "er_hzero")
    /\ NextPc(c) \in {"er_hzero", "er_hlog"}

\* What endRow writes to the headings region is inside it, and the write
\* changes no byte outside it.
HeadingsWriteInside(c) ==
    HeadingsWrite(c)
        => /\ InHeadings(log', log'.headingStart,
                         IF NextPc(c) = "er_hzero" THEN log'.headingLength
                         ELSE Len(Head(stack'[c]).h))
           /\ \A a \in Addr :
                 flash'[a] # flash[a]
                    => (log'.startAddress + MetaDataSize <= a /\ a < log'.journalStart)

\* C27: every write of endRow to the headings region, the run of 0x00 and the
\* new header line, is inside [startAddress + sizeof(metadata), journalStart),
\* and changes no byte of the journal ring or of the data region.
C27_HeadingsWriteInside == [][\A c \in Callers : HeadingsWriteInside(c)]_vars

=============================================================================
